---- MODULE Spec2Model ----
(***************************************************************************)
(* State-machine model of the per-window controller in                     *)
(* src/app/ui/window.js (class Window): the session registry, the          *)
(* initial-session warmer, the rpc channel handlers and the window         *)
(* lifecycle (attach, navigation, clean).                                  *)
(*                                                                         *)
(* Strings that the code inspects or concatenates (uids, data chunks,      *)
(* paths, shell names) are sequences of one-character strings, so that     *)
(* `uid + data`, endsWith and replace are computed, not assumed.           *)
(***************************************************************************)
EXTENDS Integers, Sequences, FiniteSets, TLC

(***************************************************************************)
(* Bounds of the model.                                                    *)
(***************************************************************************)
\* sessions ever constructed by createSession (the warmed one included)
MaxSessions == 2
\* 'data' events produced by all session processes together
MaxData == 2
\* 'did-navigate' events
MaxNav == 2
\* invocations of window.clean
MaxCleans == 2
\* 'init' events of the channel
MaxInits == 2
\* 'will-navigate' events
MaxWillNavigate == 2
\* length of the data whose escaping is evaluated
MaxLen == 3

VARIABLES
  platform,          \* process.platform: "win32" or "other"
  attached,          \* attachRPC has run
  workingDirectory,  \* attachRPC's argument (<<>> when not given)
  sess,              \* every Session object constructed so far, by uid
  sessions,          \* the Map `sessions`: the set of its keys (key uid -> sess[uid])
  initialSession,    \* `initialSession`: Null or [uid |-> the warmed uid]
  initialEvents,     \* the warmer's buffer `initialEvents`
  out,               \* every rpc.emit so far, in order: [name, args]
  i,                 \* the did-navigate counter `i`
  winRecordCalls,    \* calls of app.config.winRecord(window)
  rpcDestroyCalls,   \* calls of rpc.destroy()
  cfgUnsubscribeCalls,     \* calls of cfgUnsubscribe()
  pluginsUnsubscribeCalls, \* calls of pluginsUnsubscribe()
  deleteSessionsCalls,     \* calls of deleteSessions()
  newRequests,       \* history: number of 'new' requests handled
  warmLog,           \* history: the chunks the warmed session produced before the first 'new'
  dataEvents,        \* history: number of 'data' events produced so far
  fn,                \* the constructor's callback `fn`
  windowCallback,    \* app.windowCallback
  ran,               \* history: the callbacks the 'init' handler has called, in order
  navigations,       \* history: the 'will-navigate' events so far: [url, prevented]
  dataArg,           \* the data of the escaped inbound 'data' event under evaluation
  written            \* what session.write received for it: [shell, text]

vars == <<platform, attached, workingDirectory, sess, sessions,
          initialSession, initialEvents, out, i,
          winRecordCalls, rpcDestroyCalls, cfgUnsubscribeCalls,
          pluginsUnsubscribeCalls, deleteSessionsCalls, newRequests, warmLog,
          dataEvents, fn, windowCallback, ran, navigations, dataArg, written>>

(***************************************************************************)
(* Values.                                                                 *)
(***************************************************************************)
\* `initialSession = null`: no warmed session is held
Null == [uid |-> << >>]

Undefined == "undefined"

Digits == <<"1", "2", "3", "4", "5", "6", "7", "8", "9">>

\* uuid.v4(): the n-th identifier handed out; all have the same length
Uid(n) == <<"S", Digits[n]>>

UidLen == Len(Uid(1))

\* an identifier that createSession never returns
UnknownUid == <<"S", "0">>

CmdExe == <<"c", "m", "d", ".", "e", "x", "e">>

Sh == <<"s", "h">>

Zsh == <<"z", "s", "h">>

\* the configuration directory, cfgDir of ../config/paths
cfgDir == <<"/", "c">>

Letters == <<"a", "b", "c", "d", "e", "f", "g", "h">>

\* the n-th chunk a session process produces in a run; the chunks are
\* pairwise distinct, so an event's payload tells which chunk it carries
Chunk(n) == <<Letters[n]>>

\* attachRPC's argument on win32: the working directory of the second instance
WorkingDirectories == {<<"/", "w">>}

\* process.argv[1]: not given, a relative path, an absolute path
Argv1s == {<< >>, <<"r">>, <<"/", "a">>}

\* the configuration (cfg) in force
Configs == {[shell |-> Zsh, shellArgs |-> <<"-l">>]}

\* the options the successive 'new' requests of a run carry: none, as in
\* `new {}`, then overrides of some or all defaults
OptionInputs == << << >>,
                  [rows |-> 24, splitDirection |-> "VERTICAL", cwd |-> <<"/", "o">>],
                  [cols |-> 80],
                  << >>,
                  [rows |-> 30, cols |-> 90, splitDirection |-> "HORIZONTAL"],
                  << >> >>

\* the options of the n-th 'new' request
RequestOptions(n) == OptionInputs[n]

\* the data of inbound 'data' events: with one quote, with none, with two
DataInputs == {<<"i", "'", "s">>, <<"r", "m", " ", "/">>, <<"'", "'">>}

ResizeInputs == {[cols |-> 80, rows |-> 24]}

\* Object.assign({}, a, b): b's keys over a's
Assign(a, b) ==
  [k \in DOMAIN a \cup DOMAIN b |-> IF k \in DOMAIN b THEN b[k] ELSE a[k]]

\* path.isAbsolute on a POSIX path
isAbsolute(p) == Len(p) > 0 /\ p[1] = "/"

\* String.prototype.endsWith
endsWith(s, suffix) ==
  /\ Len(s) >= Len(suffix)
  /\ SubSeq(s, Len(s) - Len(suffix) + 1, Len(s)) = suffix

\* rpc.emit(name, ...args)
Emit(name, args) == [name |-> name, args |-> args]

(***************************************************************************)
(* The Session collaborator (../session) and the registry.                 *)
(***************************************************************************)
\* the shell a Session runs when its options name none
DefaultShell(pf) == IF pf = "win32" THEN CmdExe ELSE Sh

\* new Session(options): the object's fields the controller reads, its
\* process state and its listeners
NewSession(options, pf, n) ==
  [opts |-> options,
   shell |-> IF "shell" \in DOMAIN options THEN options.shell ELSE DefaultShell(pf),
   pid |-> n,
   proc |-> "live",
   destroyed |-> FALSE,
   listeners |-> {}]

\* the options createSession hands to the Session constructor
CreateSessionOptions(options, uid) == Assign(options, [uid |-> uid])

\* the uid createSession draws
FreshUid(all) == Uid(Cardinality(DOMAIN all) + 1)

\* createSession(options): the heap after it
CreateSession(all, options, pf) ==
  LET uid == FreshUid(all)
      session == NewSession(CreateSessionOptions(options, uid), pf,
                            Cardinality(DOMAIN all) + 1)
  IN  [u \in DOMAIN all \cup {uid} |-> IF u = uid THEN session ELSE all[u]]

\* a lookup among every session ever constructed instead of the registry
HasConstructed(registry, uid) == uid \in DOMAIN sess

\* sessions.get(uid) is truthy
Has(registry, uid) == uid \in registry

\* handleData of the warmer: what it pushes on initialEvents
handleData(uid, data) == Emit("session data", <<uid \o data>>)

\* handleExit of the warmer: what it pushes on initialEvents
handleExit == Emit("session exit", << >>)

\* flushEvents replaying the buffer from its end
flushEventsReversed(events) ==
  [n \in 1..Len(events) |-> events[Len(events) + 1 - n]]

\* flushEvents: the events it emits, in order
flushEvents(events) == events

\* the 'data' listener that 'new' attaches
onData(uid, data) == Emit("session data", <<uid \o data>>)

\* the 'exit' listener that 'new' attaches
onExit(uid) == Emit("session exit", <<[uid |-> uid]>>)

WarmListeners == {"handleData", "handleExit"}

\* flushEvents leaving the temporary handlers attached
FlushListenersKept(listeners) == listeners

\* flushEvents: the listeners left once it has removed handleData and
\* handleExit
FlushListeners(listeners) == listeners \ WarmListeners

NewListeners == {"onData", "onExit"}

\* deleteSessions that skips the sessions whose process has already exited
DeleteSessionsHeapLiveOnly(all, registry) ==
  [u \in DOMAIN all |->
     IF u \in registry /\ all[u].proc # "exited"
       THEN [all[u] EXCEPT !.listeners = {}, !.destroyed = TRUE]
       ELSE all[u]]

\* deleteSessions: every session in the registry loses its listeners and is
\* destroyed
DeleteSessionsHeap(all, registry) ==
  [u \in DOMAIN all |->
     IF u \in registry
       THEN [all[u] EXCEPT !.listeners = {}, !.destroyed = TRUE]
       ELSE all[u]]

\* deleteSessions: the registry after it
DeleteSessionsRegistry(registry) == {}

\* the process of a session can still produce events
Running(s) == ~s.destroyed /\ s.proc # "exited"

(***************************************************************************)
(* Initial state: the constructor has run.  On win32 attachRPC is left to  *)
(* the caller; elsewhere it has run with no argument.                      *)
(***************************************************************************)
\* createInitialSession
CreateInitialSession(all, pf) ==
  LET uid == FreshUid(all)
      heap == CreateSession(all, << >>, pf)
  IN  [heap |-> [heap EXCEPT ![uid].listeners = WarmListeners],
       uid |-> uid]

ConstructorInit ==
  /\ platform \in {"win32", "other"}
  /\ workingDirectory = << >>
  /\ attached = (platform # "win32")
  /\ LET warm == CreateInitialSession(<< >>, platform)
     IN  IF platform # "win32"
           THEN /\ sess = warm.heap
                /\ sessions = {warm.uid}
                /\ initialSession = [uid |-> warm.uid]
           ELSE /\ sess = << >>
                /\ sessions = {}
                /\ initialSession = Null
  /\ initialEvents = << >>
  /\ out = << >>
  /\ i = 0
  /\ winRecordCalls = 0
  /\ rpcDestroyCalls = 0
  /\ cfgUnsubscribeCalls = 0
  /\ pluginsUnsubscribeCalls = 0
  /\ deleteSessionsCalls = 0
  /\ newRequests = 0
  /\ warmLog = << >>
  /\ dataEvents = 0
  /\ ran = << >>
  /\ navigations = << >>

\* no write has been evaluated
Unwritten == [shell |-> << >>, text |-> << >>]

\* the window is constructed with no callback, no startup action is pending
\* and no escaped write is under evaluation
Init ==
  /\ ConstructorInit
  /\ fn = Undefined
  /\ windowCallback = Undefined
  /\ dataArg = << >>
  /\ written = Unwritten

\* what the handlers of the session lifecycle never assign
env == <<platform, fn, windowCallback, ran, navigations, dataArg, written>>

history == <<newRequests, warmLog, dataEvents>>

counters == <<winRecordCalls, rpcDestroyCalls, cfgUnsubscribeCalls,
              pluginsUnsubscribeCalls>>

\* attachRPC(workingDirectory), called by the application on win32
AttachRPC(wd) ==
  /\ ~attached
  /\ attached' = TRUE
  /\ workingDirectory' = wd
  /\ LET warm == CreateInitialSession(sess, platform)
     IN  /\ sess' = warm.heap
         /\ sessions' = sessions \cup {warm.uid}
         /\ initialSession' = [uid |-> warm.uid]
  /\ initialEvents' = << >>
  /\ i' = 0
  /\ UNCHANGED <<env, out, counters, deleteSessionsCalls, history>>

(***************************************************************************)
(* Session processes: the events a Session emits, and what the listeners   *)
(* attached at that moment do with them.                                   *)
(***************************************************************************)
\* session.emit('data', data)
SessionData(uid) ==
  /\ uid \in DOMAIN sess
  /\ Running(sess[uid])
  /\ sess[uid].proc = "live"
  /\ dataEvents < MaxData
  /\ dataEvents' = dataEvents + 1
  /\ LET data == Chunk(dataEvents + 1)
     IN  /\ initialEvents' = IF "handleData" \in sess[uid].listeners
                               THEN Append(initialEvents, handleData(uid, data))
                               ELSE initialEvents
         /\ out' = IF "onData" \in sess[uid].listeners
                     THEN Append(out, onData(uid, data))
                     ELSE out
         /\ warmLog' = IF initialSession # Null /\ initialSession.uid = uid
                         THEN Append(warmLog, data)
                         ELSE warmLog
  /\ UNCHANGED <<env, attached, workingDirectory, sess, sessions,
                 initialSession, i, counters, deleteSessionsCalls, newRequests>>

\* session.emit('exit')
SessionExit(uid) ==
  /\ uid \in DOMAIN sess
  /\ Running(sess[uid])
  /\ sess' = [sess EXCEPT ![uid].proc = "exited"]
  /\ initialEvents' = IF "handleExit" \in sess[uid].listeners
                        THEN Append(initialEvents, handleExit)
                        ELSE initialEvents
  /\ out' = IF "onExit" \in sess[uid].listeners
              THEN Append(out, onExit(uid))
              ELSE out
  /\ sessions' = IF "onExit" \in sess[uid].listeners
                   THEN sessions \ {uid}
                   ELSE sessions
  /\ UNCHANGED <<env, attached, workingDirectory, initialSession, i,
                 counters, deleteSessionsCalls, history>>

(***************************************************************************)
(* rpc handlers.                                                           *)
(***************************************************************************)
\* the channel still delivers inbound events: rpc.destroy() has not run
RpcAlive == attached /\ rpcDestroyCalls = 0

\* the uids the UI has been told about
AnnouncedUids ==
  {out[n].args[1].uid : n \in {m \in DOMAIN out : out[m].name = "session add"}}

\* the uids an inbound event may name
InboundUids == AnnouncedUids \cup {UnknownUid}

\* the cwd 'new' resolves
ResolveCwd(wd, arg) ==
  IF Len(wd) > 0 THEN wd
  ELSE IF Len(arg) > 0 /\ isAbsolute(arg) THEN arg ELSE cfgDir

\* sessionOpts of 'new'
SessionOpts(cwd, config, options) ==
  Assign([rows |-> 40,
          cols |-> 100,
          cwd |-> cwd,
          splitDirection |-> Undefined,
          shell |-> config.shell,
          shellArgs |-> config.shellArgs],
         options)

\* the options 'new' passes to createSession: createSession() is called
\* with no argument
NewSessionArgument(sessionOpts) == << >>

\* 'new' takes the warmed session: `initialSession || createSession()`
UseInitial(initial) == initial # Null

\* 'new' forgetting to clear initialSession
InitialKept(initial) == initial

\* initialSession after 'new'
InitialAfterNew(initial) == Null

\* the payload of 'session add'
SessionAdd(sessionOpts, uid, session) ==
  Emit("session add", <<[rows |-> sessionOpts.rows,
                         cols |-> sessionOpts.cols,
                         uid |-> uid,
                         splitDirection |-> sessionOpts.splitDirection,
                         shell |-> session.shell,
                         pid |-> session.pid]>>)

\* rpc.on('new', options), with the process.argv[1] and the cfg it reads
New(options, argv1, cfg) ==
  /\ RpcAlive
  /\ UseInitial(initialSession) \/ Cardinality(DOMAIN sess) < MaxSessions
  /\ LET cwd == ResolveCwd(workingDirectory, argv1)
         sessionOpts == SessionOpts(cwd, cfg, options)
         reuse == UseInitial(initialSession)
         uid == IF reuse THEN initialSession.uid ELSE FreshUid(sess)
         heap == IF reuse THEN sess
                 ELSE CreateSession(sess, NewSessionArgument(sessionOpts), platform)
         session == heap[uid]
         flushed == IF reuse THEN flushEvents(initialEvents) ELSE << >>
         kept == IF reuse THEN FlushListeners(session.listeners)
                 ELSE session.listeners
     IN  /\ sessions' = sessions \cup {uid}
         /\ out' = Append(out, SessionAdd(sessionOpts, uid, session)) \o flushed
         /\ sess' = [heap EXCEPT ![uid].listeners = kept \cup NewListeners]
         /\ initialSession' = IF reuse THEN InitialAfterNew(initialSession)
                              ELSE initialSession
  /\ newRequests' = newRequests + 1
  /\ UNCHANGED <<env, attached, workingDirectory, initialEvents, i,
                 counters, deleteSessionsCalls, warmLog, dataEvents>>

\* Session.exit(): the process is asked to end; its 'exit' event follows
SessionExitCall(s) == IF Running(s) THEN [s EXCEPT !.proc = "exiting"] ELSE s

\* a call of a Session method
Call(uid, method, arg) == [uid |-> uid, method |-> method, arg |-> arg]

\* rpc.on('exit', {uid}): the Session methods it calls
ExitCalls(uid) ==
  IF Has(sessions, uid) THEN <<Call(uid, "exit", << >>)>> ELSE << >>

\* rpc.on('exit', {uid}): the sessions after it
ExitHeap(uid) ==
  IF Has(sessions, uid)
    THEN [sess EXCEPT ![uid] = SessionExitCall(sess[uid])]
    ELSE sess

\* rpc.on('exit', {uid})
RpcExit(uid) ==
  /\ RpcAlive
  /\ sess' = ExitHeap(uid)
  /\ UNCHANGED <<env, attached, workingDirectory, sessions, initialSession,
                 initialEvents, out, i, counters, deleteSessionsCalls, history>>

\* rpc.on('resize', {uid, cols, rows}): the Session methods it calls
ResizeCalls(uid, size) ==
  IF Has(sessions, uid) THEN <<Call(uid, "resize", size)>> ELSE << >>

\* rpc.on('resize', {uid, cols, rows}): it assigns no variable of the window
RpcResize(uid, size) ==
  /\ RpcAlive
  /\ UNCHANGED vars

RECURSIVE ReplaceQuotes(_)
\* data.replace(/'/g, `'\\''`)
ReplaceQuotes(data) ==
  IF data = << >> THEN << >>
  ELSE (IF Head(data) = "'" THEN <<"'", "\\", "'", "'">> ELSE <<Head(data)>>)
         \o ReplaceQuotes(Tail(data))

\* escapedData wrapping in single quotes without replacing the quotes of data
EscapedDataUnreplaced(shell, data) ==
  IF endsWith(shell, CmdExe)
    THEN <<"\"">> \o data \o <<"\"">>
    ELSE <<"'">> \o data \o <<"'">>

\* escapedData taking the single-quote branch for every shell
EscapedDataSingleQuoteOnly(shell, data) ==
  <<"'">> \o ReplaceQuotes(data) \o <<"'">>

\* escapedData of the 'data' handler
EscapedData(shell, data) ==
  IF endsWith(shell, CmdExe)
    THEN <<"\"">> \o data \o <<"\"">>
    ELSE <<"'">> \o ReplaceQuotes(data) \o <<"'">>

\* rpc.on('data', {uid, data, escaped}): the Session methods it calls
DataCalls(uid, data, escaped) ==
  IF Has(sessions, uid)
    THEN <<Call(uid, "write",
                IF escaped THEN EscapedData(sess[uid].shell, data) ELSE data)>>
    ELSE << >>

\* rpc.on('data', {uid, data, escaped}): it assigns no variable of the window
RpcData(uid, data, escaped) ==
  /\ RpcAlive
  /\ UNCHANGED vars

(***************************************************************************)
(* Window lifecycle.                                                       *)
(***************************************************************************)
\* the window has not been closed: window.clean runs when it closes
WindowOpen == winRecordCalls = 0

\* `if (++i)`: the test sees the value after the increment
NavigationResetsPreIncrement(n) == n + 1 # 0

\* `if (i++)`: the test sees the value before the increment
NavigationResets(n) == n # 0

\* window.webContents.on('did-navigate')
DidNavigate ==
  /\ attached
  /\ WindowOpen
  /\ i < MaxNav
  /\ i' = i + 1
  /\ IF NavigationResets(i)
       THEN /\ sess' = DeleteSessionsHeap(sess, sessions)
            /\ sessions' = DeleteSessionsRegistry(sessions)
            /\ deleteSessionsCalls' = deleteSessionsCalls + 1
       ELSE UNCHANGED <<sess, sessions, deleteSessionsCalls>>
  /\ UNCHANGED <<env, attached, workingDirectory, initialSession,
                 initialEvents, out, counters, history>>

\* window.clean as attachRPC defines it
CleanAttached ==
  /\ attached
  /\ winRecordCalls < MaxCleans
  /\ winRecordCalls' = winRecordCalls + 1
  /\ rpcDestroyCalls' = rpcDestroyCalls + 1
  /\ sess' = DeleteSessionsHeap(sess, sessions)
  /\ sessions' = DeleteSessionsRegistry(sessions)
  /\ deleteSessionsCalls' = deleteSessionsCalls + 1
  /\ cfgUnsubscribeCalls' = cfgUnsubscribeCalls + 1
  /\ pluginsUnsubscribeCalls' = pluginsUnsubscribeCalls + 1
  /\ UNCHANGED <<env, attached, workingDirectory, initialSession,
                 initialEvents, out, i, history>>

\* window.clean as the constructor defines it on win32, before attachRPC
CleanUnattached ==
  /\ ~attached
  /\ winRecordCalls < MaxCleans
  /\ winRecordCalls' = winRecordCalls + 1
  /\ cfgUnsubscribeCalls' = cfgUnsubscribeCalls + 1
  /\ UNCHANGED <<env, attached, workingDirectory, sess, sessions,
                 initialSession, initialEvents, out, i, rpcDestroyCalls,
                 pluginsUnsubscribeCalls, deleteSessionsCalls, history>>

Next ==
  \/ \E wd \in WorkingDirectories : AttachRPC(wd)
  \/ \E uid \in DOMAIN sess : SessionData(uid)
  \/ \E uid \in DOMAIN sess : SessionExit(uid)
  \/ \E argv1 \in Argv1s, cfg \in Configs :
       New(RequestOptions(newRequests + 1), argv1, cfg)
  \/ \E uid \in InboundUids : RpcExit(uid)
  \/ \E uid \in InboundUids, size \in ResizeInputs : RpcResize(uid, size)
  \/ \E uid \in InboundUids, data \in DataInputs, escaped \in BOOLEAN :
       RpcData(uid, data, escaped)
  \/ DidNavigate
  \/ CleanAttached
  \/ CleanUnattached

Spec == Init /\ [][Next]_vars

(***************************************************************************)
(* Startup: the 'init' handler, with the callback the constructor was      *)
(* given (or none) and the startup action app.windowCallback (pending or   *)
(* not), composed with the window lifecycle.                               *)
(***************************************************************************)
\* everything of the window but the channel history and env
lifecycle == <<attached, workingDirectory, sess, sessions, initialSession,
               initialEvents, i, counters, deleteSessionsCalls, history>>

\* the callback passed to the constructor, or none
FnInputs == {"fn", Undefined}

\* app.windowCallback when the window is constructed: set, or not
WindowCallbackInputs == {"windowCallback", Undefined}

StartupInit ==
  /\ ConstructorInit
  /\ fn \in FnInputs
  /\ windowCallback \in WindowCallbackInputs
  /\ dataArg = << >>
  /\ written = Unwritten

\* `if (!fn) fn = win => win.rpc.emit('termgroup add req')`
FnAfterInit(f) == IF f = Undefined THEN "default" ELSE f

\* `app.windowCallback || fn`: the callback 'init' calls
InitCallee(cb, f) == IF cb # Undefined THEN cb ELSE f

\* what the called callback emits on the channel: the default emits
\* 'termgroup add req'; what the other callbacks do is theirs
CalleeEmits(callee) ==
  IF callee = "default" THEN <<Emit("termgroup add req", << >>)>> ELSE << >>

\* 'init' leaving app.windowCallback in place
WindowCallbackKept(cb) == cb

\* `delete app.windowCallback`
WindowCallbackAfterInit(cb) == Undefined

\* rpc.on('init')
RpcInit ==
  /\ RpcAlive
  /\ Len(ran) < MaxInits
  /\ fn' = FnAfterInit(fn)
  /\ LET callee == InitCallee(windowCallback, FnAfterInit(fn))
     IN  /\ ran' = Append(ran, callee)
         /\ out' = out \o CalleeEmits(callee)
  /\ windowCallback' = WindowCallbackAfterInit(windowCallback)
  /\ UNCHANGED <<lifecycle, platform, navigations, dataArg, written>>

\* 'init' among the events of the window that decide when it can occur and
\* what stands on the channel: attach, 'new', reload, clean.  The session
\* events and the inbound session handlers neither read nor assign fn,
\* app.windowCallback or the callbacks' record.
StartupNext ==
  \/ \E wd \in WorkingDirectories : AttachRPC(wd)
  \/ \E argv1 \in Argv1s, cfg \in Configs :
       New(RequestOptions(newRequests + 1), argv1, cfg)
  \/ RpcInit
  \/ DidNavigate
  \/ CleanAttached
  \/ CleanUnattached

StartupSpec == StartupInit /\ [][StartupNext]_vars

(***************************************************************************)
(* Navigation interception: the 'will-navigate' handler, composed with     *)
(* the window lifecycle.  A URL is the sequence of its characters.         *)
(***************************************************************************)
FileScheme == <<"f", "i", "l", "e", ":">>

HttpScheme == <<"h", "t", "t", "p", ":">>

HttpsScheme == <<"h", "t", "t", "p", "s", ":">>

\* the URLs a navigation is attempted to: a dropped file, a dropped file
\* whose name has a space, a link of each web scheme, another scheme
UrlInputs ==
  {FileScheme \o <<"/", "/", "/", "t">>,
   FileScheme \o <<"/", "/", "/", "a", "%", "2", "0", "b">>,
   HttpScheme \o <<"/", "/", "h">>,
   HttpsScheme \o <<"/", "/", "h">>,
   <<"a", "b", "o", "u", "t", ":", "b">>}

\* parseUrl(url).protocol: the characters up to the first colon, the colon
\* included; empty when the URL has none
Protocol(url) ==
  LET colons == {k \in DOMAIN url : url[k] = ":"}
  IN  IF colons = {} THEN << >>
      ELSE SubSeq(url, 1, CHOOSE k \in colons : \A j \in colons : k <= j)

RECURSIVE DecodeURI(_)
\* the percent-decoding fileUriToPath applies (the escape of the space)
DecodeURI(text) ==
  IF text = << >> THEN << >>
  ELSE IF Len(text) >= 3 /\ SubSeq(text, 1, 3) = <<"%", "2", "0">>
    THEN <<" ">> \o DecodeURI(SubSeq(text, 4, Len(text)))
  ELSE <<Head(text)>> \o DecodeURI(Tail(text))

\* fileUriToPath handing the URL back as it is
fileUriToPathRaw(url) == url

\* fileUriToPath(url) of a URL with no host: the decoded text after file://
fileUriToPath(url) == DecodeURI(SubSeq(url, Len(FileScheme) + 3, Len(url)))

\* the handler calls event.preventDefault()
PreventsDefault(url) ==
  Protocol(url) \in {FileScheme, HttpScheme, HttpsScheme}

\* what the handler emits on the channel
WillNavigateEmits(url) ==
  IF Protocol(url) = FileScheme
    THEN <<Emit("session data send",
                <<[data |-> fileUriToPath(url), escaped |-> TRUE]>>)>>
  ELSE IF Protocol(url) \in {HttpScheme, HttpsScheme}
    THEN <<Emit("session data send", <<[data |-> url]>>)>>
  ELSE << >>

\* window.webContents.on('will-navigate')
WillNavigate(url) ==
  /\ attached
  /\ WindowOpen
  /\ Len(navigations) < MaxWillNavigate
  /\ navigations' = Append(navigations,
                           [url |-> url, prevented |-> PreventsDefault(url)])
  /\ out' = out \o WillNavigateEmits(url)
  /\ UNCHANGED <<lifecycle, platform, fn, windowCallback, ran, dataArg, written>>

InterceptNext ==
  \/ \E wd \in WorkingDirectories : AttachRPC(wd)
  \/ \E argv1 \in Argv1s, cfg \in Configs :
       New(RequestOptions(newRequests + 1), argv1, cfg)
  \/ \E url \in UrlInputs : WillNavigate(url)
  \/ DidNavigate
  \/ CleanAttached
  \/ CleanUnattached

InterceptSpec == Init /\ [][InterceptNext]_vars

(***************************************************************************)
(* The escaping of the 'data' handler as a function of its input: every    *)
(* string over EscapeAlphabet up to MaxLen characters, written to a        *)
(* session of each shell.                                                  *)
(***************************************************************************)
\* quote characters, the backslash, the space, shell metacharacters, a letter
EscapeAlphabet == {"'", "\"", "\\", " ", "$", ";", "a"}

\* the data of an escaped inbound 'data' event
EscapeInputs == UNION {[1..n -> EscapeAlphabet] : n \in 0..MaxLen}

\* session.shell of the session written to
Shells == {CmdExe, <<"C", ":", "\\">> \o CmdExe, Zsh, Sh}

EscapeInit ==
  /\ ConstructorInit
  /\ fn = Undefined
  /\ windowCallback = Undefined
  /\ dataArg \in EscapeInputs
  /\ written = Unwritten

\* the escaped branch of rpc.on('data'): session.write(escapedData)
EscapeWrite(shell) ==
  /\ written = Unwritten
  /\ written' = [shell |-> shell, text |-> EscapedData(shell, dataArg)]
  /\ UNCHANGED <<platform, attached, workingDirectory, sess, sessions,
                 initialSession, initialEvents, out, i, counters,
                 deleteSessionsCalls, history, fn, windowCallback, ran,
                 navigations, dataArg>>

EscapeNext == \E shell \in Shells : EscapeWrite(shell)

EscapeSpec == EscapeInit /\ [][EscapeNext]_vars

(***************************************************************************)
(* Vocabulary of the properties.                                           *)
(***************************************************************************)
\* the uid of the warmed session: createInitialSession makes the first
\* createSession call of the window
WarmUid == Uid(1)

\* the first 'new' request has been handled
FirstNewHandled == attached /\ initialSession = Null

\* event e of the channel names uid u
NamesUid(e, u) ==
  \/ e.name = "session add" /\ e.args[1].uid = u
  \/ e.name = "session data" /\ SubSeq(e.args[1], 1, UidLen) = u
  \/ e.name = "session exit" /\ e.args # << >> /\ e.args[1].uid = u

\* the positions of the 'session add' events of a channel history
Adds(events) == {n \in DOMAIN events : events[n].name = "session add"}

\* the events a step appends to the channel
Emitted(before, after) == {n \in DOMAIN after : n > Len(before)}

IsSessionData(e, payload) == e.name = "session data" /\ e.args = <<payload>>

IsSessionExit(e, u) ==
  e.name = "session exit" /\ e.args # << >> /\ e.args[1].uid = u

(***************************************************************************)
(* C1.  Warm-up ordering: before the first 'new' nothing on the channel    *)
(* names the warmed uid; once the first 'new' is handled, the channel      *)
(* carries 'session add' for the warmed uid, immediately followed by the   *)
(* N chunks the warmed session produced before that 'new', as              *)
(* 'session data' uid+chunk, in production order, each exactly once, with  *)
(* no event naming the warmed uid before the 'session add' (so every       *)
(* later event of the session comes after them).                           *)
(***************************************************************************)
C1_WarmupOrdering ==
  /\ (attached /\ initialSession # Null) =>
       \A n \in DOMAIN out : ~NamesUid(out[n], WarmUid)
  /\ FirstNewHandled =>
       \E k \in DOMAIN out :
         /\ out[k].name = "session add"
         /\ out[k].args[1].uid = WarmUid
         /\ \A j \in 1..(k - 1) : ~NamesUid(out[j], WarmUid)
         /\ k + Len(warmLog) <= Len(out)
         /\ \A n \in DOMAIN warmLog :
              /\ IsSessionData(out[k + n], WarmUid \o warmLog[n])
              /\ Cardinality({j \in DOMAIN out :
                                IsSessionData(out[j], WarmUid \o warmLog[n])}) = 1

\* the spec's scenario: two chunks before the first 'new', then 'new'
C1_Witness ==
  /\ FirstNewHandled
  /\ Len(warmLog) = 2
  /\ Len(out) = 3
  /\ IsSessionData(out[2], WarmUid \o Chunk(1))
  /\ IsSessionData(out[3], WarmUid \o Chunk(2))

(***************************************************************************)
(* C2.  Cancellation by destruction: a step never emits 'session add',     *)
(* 'session data' or 'session exit' naming the uid of a session that was   *)
(* already destroyed (by deleteSessions) when the step began.              *)
(***************************************************************************)
C2_NoEventAfterDestroy ==
  [][\A n \in Emitted(out, out') : \A u \in DOMAIN sess :
       sess[u].destroyed => ~NamesUid(out'[n], u)]_vars

(***************************************************************************)
(* C3.  A uid whose session deleteSessions has destroyed is absent from    *)
(* the registry, in every later state.                                     *)
(***************************************************************************)
C3_DestroyedStaysAbsent ==
  \A u \in DOMAIN sess : sess[u].destroyed => ~(u \in sessions)

(***************************************************************************)
(* C4.  No write, resize or exit call is made on a session that has been   *)
(* destroyed or whose process has emitted its exit event: whatever         *)
(* inbound 'exit', 'resize' or 'data' event arrives, every Session method  *)
(* its handler calls is called on a session that is neither.               *)
(***************************************************************************)
OnLiveSession(made) ==
  \A n \in DOMAIN made :
    /\ ~sess[made[n].uid].destroyed
    /\ sess[made[n].uid].proc # "exited"

C4_NoCallOnDeadSession ==
  RpcAlive =>
    \A uid \in InboundUids :
      /\ OnLiveSession(ExitCalls(uid))
      /\ \A size \in ResizeInputs : OnLiveSession(ResizeCalls(uid, size))
      /\ \A data \in DataInputs, escaped \in BOOLEAN :
           OnLiveSession(DataCalls(uid, data, escaped))

(***************************************************************************)
(* C5.  For every session the UI has been told about ('session add'        *)
(* emitted, so that any buffered event has been replayed) whose process    *)
(* has emitted its exit event, the channel carries a 'session exit' whose  *)
(* payload holds the session's uid, and the uid is not in the registry.    *)
(***************************************************************************)
C5_ExitDelivered ==
  \A u \in AnnouncedUids :
    sess[u].proc = "exited" =>
      /\ \E n \in DOMAIN out : IsSessionExit(out[n], u)
      /\ ~(u \in sessions)

(***************************************************************************)
(* C6.  Every 'new' appends exactly one 'session add'; the first 'new'     *)
(* announces the warmed session; every later 'new' constructs a session    *)
(* whose uid no earlier createSession returned; the uids of the            *)
(* 'session add' events are pairwise distinct.                             *)
(***************************************************************************)
C6_OnlyFirstNewReuses ==
  [][newRequests' = newRequests + 1 =>
       /\ Cardinality(Adds(out') \cap Emitted(out, out')) = 1
       /\ \A n \in Adds(out') \cap Emitted(out, out') :
            /\ (newRequests = 0) => out'[n].args[1].uid = WarmUid
            /\ (newRequests > 0) =>
                 /\ ~(out'[n].args[1].uid \in DOMAIN sess)
                 /\ out'[n].args[1].uid \in DOMAIN sess'
       /\ \A j \in Adds(out') : \A k \in Adds(out') :
            j # k => out'[j].args[1].uid # out'[k].args[1].uid]_vars

\* a second 'new' has been answered with a session of its own
C6_Witness ==
  /\ newRequests = 2
  /\ Cardinality(Adds(out)) = 2
  /\ \E n \in Adds(out) : out[n].args[1].uid # WarmUid

(***************************************************************************)
(* C7.  window.clean after attachRPC: the window is recorded once more,    *)
(* the channel is destroyed, every session that was in the registry has    *)
(* no listeners left and is destroyed, the registry is empty, both         *)
(* unsubscribe functions are called; a warmed session no 'new' consumed    *)
(* is destroyed.                                                           *)
(***************************************************************************)
C7_Teardown ==
  [][(counters' # counters /\ attached) =>
       /\ winRecordCalls' = winRecordCalls + 1
       /\ rpcDestroyCalls' = rpcDestroyCalls + 1
       /\ \A u \in sessions :
            sess'[u].destroyed /\ sess'[u].listeners = {}
       /\ sessions' = {}
       /\ cfgUnsubscribeCalls' = cfgUnsubscribeCalls + 1
       /\ pluginsUnsubscribeCalls' = pluginsUnsubscribeCalls + 1
       /\ (initialSession # Null) => sess'[initialSession.uid].destroyed]_vars

\* teardown with the warmed session never consumed, after its process had
\* exited and with no navigation before
C7_Witness ==
  /\ attached
  /\ rpcDestroyCalls = 1
  /\ initialSession # Null
  /\ sess[initialSession.uid].proc = "exited"
  /\ sess[initialSession.uid].destroyed
  /\ sessions = {}
  /\ i = 0

(***************************************************************************)
(* C8.  Navigation counting: the first 'did-navigate' calls deleteSessions *)
(* zero times and leaves registry and sessions unchanged; every later one  *)
(* calls it exactly once; after k navigations the navigation handler has   *)
(* called it max(0, k-1) times (window.clean adds one call of its own).    *)
(***************************************************************************)
C8_NavigationCounting ==
  [][/\ (i' = i + 1) =>
          IF i = 0
            THEN UNCHANGED <<sessions, sess, deleteSessionsCalls>>
            ELSE /\ deleteSessionsCalls' = deleteSessionsCalls + 1
                 /\ sessions' = {}
     /\ deleteSessionsCalls' - rpcDestroyCalls' = IF i' = 0 THEN 0 ELSE i' - 1]_vars

\* the second navigation has destroyed a registered session
C8_Witness ==
  /\ i = 2
  /\ deleteSessionsCalls = 1
  /\ rpcDestroyCalls = 0
  /\ \E u \in DOMAIN sess : sess[u].destroyed

(***************************************************************************)
(* C9.  An inbound 'resize', 'data' or 'exit' whose uid is not in the      *)
(* registry changes nothing: its handler calls no Session method and       *)
(* leaves every session as it is (the three handlers assign nothing else:  *)
(* registry, buffer and channel are theirs to read only).                  *)
(***************************************************************************)
C9_UnknownUidNoOp ==
  RpcAlive =>
    \A uid \in DOMAIN sess \cup {UnknownUid} :
      ~(uid \in sessions) =>
        /\ ExitCalls(uid) = << >>
        /\ \A size \in ResizeInputs : ResizeCalls(uid, size) = << >>
        /\ \A data \in DataInputs, escaped \in BOOLEAN :
             DataCalls(uid, data, escaped) = << >>
        /\ ExitHeap(uid) = sess

\* a session the UI knows has exited and left the registry while the
\* channel is open: a late event naming it can arrive
C9_Witness ==
  /\ RpcAlive
  /\ \E uid \in AnnouncedUids :
       /\ ~(uid \in sessions)
       /\ sess[uid].proc = "exited"
       /\ \E n \in DOMAIN out : IsSessionExit(out[n], uid)

(***************************************************************************)
(* C10.  A session created by a 'new' that the warmed session does not     *)
(* satisfy is constructed with the request's options merged over the       *)
(* defaults, so the rows, cols and splitDirection announced in its         *)
(* 'session add' are options the session was constructed with.             *)
(***************************************************************************)
C10_ConstructedWithSessionOpts ==
  \A n \in Adds(out) :
    LET added == out[n].args[1]
        opts == sess[added.uid].opts
    IN  added.uid # WarmUid =>
          /\ {"rows", "cols", "splitDirection"} \subseteq DOMAIN opts
          /\ opts["rows"] = added.rows
          /\ opts["cols"] = added.cols
          /\ opts["splitDirection"] = added.splitDirection

(***************************************************************************)
(* C11.  An inbound 'data' {uid, data, escaped} for a registered uid       *)
(* causes exactly one write, to that session: data itself when escaped is  *)
(* false; data with every single quote replaced by '\'' and wrapped in     *)
(* single quotes when escaped is true and the shell does not end with      *)
(* cmd.exe; data wrapped in double quotes when it does.                    *)
(***************************************************************************)
QuotesBefore(data, k) == Cardinality({j \in 1..(k - 1) : data[j] = "'"})

\* text is data wrapped in single quotes, each quote of data standing as
\* the four characters '\'' and every other character as itself
SingleQuoted(text, data) ==
  LET inner == SubSeq(text, 2, Len(text) - 1)
      At(k) == k + 3 * QuotesBefore(data, k)
  IN  /\ Len(text) = Len(data) + 3 * QuotesBefore(data, Len(data) + 1) + 2
      /\ text[1] = "'"
      /\ text[Len(text)] = "'"
      /\ \A k \in DOMAIN data :
           IF data[k] = "'"
             THEN SubSeq(inner, At(k), At(k) + 3) = <<"'", "\\", "'", "'">>
             ELSE inner[At(k)] = data[k]

C11_DataWrite ==
  RpcAlive =>
    \A uid \in sessions, data \in DataInputs, escaped \in BOOLEAN :
      LET made == DataCalls(uid, data, escaped)
          cmd == endsWith(sess[uid].shell, CmdExe)
      IN  /\ Len(made) = 1
          /\ made[1].uid = uid
          /\ made[1].method = "write"
          /\ ~escaped => made[1].arg = data
          /\ (escaped /\ ~cmd) => SingleQuoted(made[1].arg, data)
          /\ (escaped /\ cmd) => made[1].arg = <<"\"">> \o data \o <<"\"">>

\* a session the UI was told about is registered and running, and the
\* escaped write of it's to it is "it's" on cmd.exe, 'it'\''s' elsewhere
C11_Witness ==
  /\ RpcAlive
  /\ \E uid \in sessions \cap AnnouncedUids :
       /\ Running(sess[uid])
       /\ DataCalls(uid, <<"i", "'", "s">>, TRUE)[1].arg =
            IF endsWith(sess[uid].shell, CmdExe)
              THEN <<"\"", "i", "'", "s", "\"">>
              ELSE <<"'", "i", "'", "\\", "'", "'", "s", "'">>

(***************************************************************************)
(* C12.  Single-quote strategy round trip: for every input over the        *)
(* alphabet, reading the escaped write by the POSIX rules (text inside     *)
(* '...' is literal, \c outside quotes is the literal c) yields exactly    *)
(* one word, equal to the input.                                           *)
(***************************************************************************)
\* characters a POSIX shell interprets when they stand outside quotes
Interpreted == {"$", ";", "\""}

RECURSIVE PosixRead(_, _, _, _, _)
\* the words a POSIX shell reads from text; a character interpreted by the
\* shell stands in its word as "interpreted", an unterminated quote ends the
\* reading with the word <<"unterminated">>
PosixRead(text, quoted, started, word, words) ==
  IF text = << >>
    THEN IF quoted THEN Append(words, <<"unterminated">>)
         ELSE IF started THEN Append(words, word) ELSE words
  ELSE LET c == Head(text)
           rest == Tail(text)
       IN  IF quoted
             THEN IF c = "'"
                    THEN PosixRead(rest, FALSE, TRUE, word, words)
                    ELSE PosixRead(rest, TRUE, TRUE, Append(word, c), words)
           ELSE IF c = "'"
             THEN PosixRead(rest, TRUE, TRUE, word, words)
           ELSE IF c = "\\" /\ rest # << >>
             THEN PosixRead(Tail(rest), FALSE, TRUE, Append(word, Head(rest)), words)
           ELSE IF c = " "
             THEN IF started
                    THEN PosixRead(rest, FALSE, FALSE, << >>, Append(words, word))
                    ELSE PosixRead(rest, FALSE, FALSE, << >>, words)
           ELSE IF c \in Interpreted
             THEN PosixRead(rest, FALSE, TRUE, Append(word, "interpreted"), words)
           ELSE PosixRead(rest, FALSE, TRUE, Append(word, c), words)

PosixWords(text) == PosixRead(text, FALSE, FALSE, << >>, << >>)

C12_SingleQuoteRoundTrip ==
  (written # Unwritten /\ ~endsWith(written.shell, CmdExe)) =>
    PosixWords(written.text) = <<dataArg>>

\* an input with a quote, a backslash and a metacharacter has been escaped
\* for a POSIX shell
C12_Witness ==
  /\ dataArg = <<"'", "\\", "$">>
  /\ written.shell = Zsh
  /\ written.text = <<"'", "'", "\\", "'", "'", "\\", "$", "'">>
  /\ PosixWords(written.text) = <<dataArg>>

(***************************************************************************)
(* C13.  Double-quote strategy containment: for every input over the       *)
(* alphabet, the escaped write for a cmd.exe session is the input inside   *)
(* one pair of double quotes, and no character of the input ends the       *)
(* quoting: none of them is a double quote.                                *)
(***************************************************************************)
C13_DoubleQuoteContainment ==
  (written # Unwritten /\ endsWith(written.shell, CmdExe)) =>
    /\ written.text = <<"\"">> \o dataArg \o <<"\"">>
    /\ \A k \in 2..(Len(written.text) - 1) : written.text[k] # "\""

(***************************************************************************)
(* C14.  Every 'session add' refers to a session that still exists when    *)
(* it is emitted: once the handler that emitted it has run, the session    *)
(* is in the registry, is not destroyed and its process has not exited.    *)
(***************************************************************************)
C14_AddedSessionExists ==
  [][\A n \in Adds(out') \cap Emitted(out, out') :
       LET uid == out'[n].args[1].uid
       IN  /\ uid \in sessions'
           /\ ~sess'[uid].destroyed
           /\ sess'[uid].proc # "exited"]_vars

(***************************************************************************)
(* C15.  Double teardown is prevented: however often window.clean is       *)
(* invoked, the channel is destroyed at most once, each unsubscribe        *)
(* function is called at most once and the recency record is written at    *)
(* most once.                                                              *)
(***************************************************************************)
C15_TeardownOnce ==
  /\ rpcDestroyCalls <= 1
  /\ cfgUnsubscribeCalls <= 1
  /\ pluginsUnsubscribeCalls <= 1
  /\ winRecordCalls <= 1

(***************************************************************************)
(* C16.  The buffer is flushed at most once per attach: the flush replays  *)
(* the buffer in insertion order right after the 'session add' and leaves  *)
(* the temporary handlers detached; from then on no step flushes again,    *)
(* appends to the buffer or attaches a temporary handler, and no buffered  *)
(* event is on the channel twice.                                          *)
(***************************************************************************)
C16_FlushOnce ==
  [][/\ (initialSession # Null /\ initialSession' = Null) =>
          /\ SubSeq(out', Len(out) + 2, Len(out')) = initialEvents
          /\ sess'[initialSession.uid].listeners \cap WarmListeners = {}
     /\ FirstNewHandled =>
          /\ initialSession' = Null
          /\ initialEvents' = initialEvents
          /\ \A u \in DOMAIN sess' : sess'[u].listeners \cap WarmListeners = {}
          /\ \A n \in DOMAIN initialEvents :
               Cardinality({j \in DOMAIN out' : out'[j] = initialEvents[n]}) = 1]_vars

\* one chunk was buffered and flushed, and a chunk the warmed session
\* produced after the flush went to the channel, not to the buffer
C16_Witness ==
  /\ FirstNewHandled
  /\ Len(initialEvents) = 1
  /\ Len(warmLog) = 1
  /\ \E n \in DOMAIN out : IsSessionData(out[n], WarmUid \o Chunk(2))

(***************************************************************************)
(* C17.  Every 'session data' and 'session exit' on the channel names the  *)
(* uid of a session of this window for which a 'session add' stands        *)
(* earlier on the channel.                                                 *)
(***************************************************************************)
C17_EventsNameAnnounced ==
  \A n \in DOMAIN out :
    out[n].name \in {"session data", "session exit"} =>
      \E u \in DOMAIN sess :
        /\ NamesUid(out[n], u)
        /\ \E k \in 1..(n - 1) :
             out[k].name = "session add" /\ out[k].args[1].uid = u

(***************************************************************************)
(* C18.  The pending startup action is read and cleared by the first       *)
(* 'init': that 'init' calls it in place of the constructor callback and   *)
(* no later 'init' calls it again; an 'init' with no pending action calls  *)
(* the constructor callback, or, when none was given, the default, which   *)
(* emits 'termgroup add req'.                                              *)
(***************************************************************************)
C18_StartupActionOnce ==
  [][Len(ran') = Len(ran) + 1 =>
       LET callee == ran'[Len(ran')]
       IN  /\ windowCallback' = Undefined
           /\ windowCallback # Undefined =>
                /\ callee = "windowCallback"
                /\ out' = out
           /\ windowCallback = Undefined =>
                IF fn = "fn"
                  THEN callee = "fn" /\ out' = out
                  ELSE /\ callee = "default"
                       /\ out' = Append(out, Emit("termgroup add req", << >>))
           /\ Len(ran) >= 1 => callee # "windowCallback"]_vars

\* the first 'init' ran the pending action, the second one (after a
\* reload) the default, no callback having been given
C18_Witness ==
  /\ ran = <<"windowCallback", "default">>
  /\ windowCallback = Undefined
  /\ i >= 1
  /\ \E n \in DOMAIN out : out[n].name = "termgroup add req"

(***************************************************************************)
(* C19.  Navigation interception: a 'will-navigate' to a file:, http: or   *)
(* https: URL is prevented and emits exactly one 'session data send': for  *)
(* a file: URL with escaped true and the path the URL stands for, for an   *)
(* http(s): URL with the URL itself and no escaped flag; the handler       *)
(* changes neither the registry nor any session.                           *)
(***************************************************************************)
HasScheme(url, scheme) ==
  Len(url) >= Len(scheme) /\ SubSeq(url, 1, Len(scheme)) = scheme

RECURSIVE EncodeURI(_)
\* the text with its spaces percent-encoded
EncodeURI(text) ==
  IF text = << >> THEN << >>
  ELSE (IF Head(text) = " " THEN <<"%", "2", "0">> ELSE <<Head(text)>>)
         \o EncodeURI(Tail(text))

\* the file: URL of a path
FileUrlOf(path) == FileScheme \o <<"/", "/">> \o EncodeURI(path)

C19_NavigationIntercepted ==
  [][Len(navigations') = Len(navigations) + 1 =>
       LET nav == navigations'[Len(navigations')]
           sent == out'[Len(out')]
       IN  /\ UNCHANGED <<sessions, sess>>
           /\ HasScheme(nav.url, FileScheme) =>
                /\ nav.prevented
                /\ Len(out') = Len(out) + 1
                /\ sent.name = "session data send"
                /\ Len(sent.args) = 1
                /\ DOMAIN sent.args[1] = {"data", "escaped"}
                /\ sent.args[1].escaped = TRUE
                /\ FileUrlOf(sent.args[1].data) = nav.url
           /\ (HasScheme(nav.url, HttpScheme) \/ HasScheme(nav.url, HttpsScheme)) =>
                /\ nav.prevented
                /\ Len(out') = Len(out) + 1
                /\ sent.name = "session data send"
                /\ Len(sent.args) = 1
                /\ DOMAIN sent.args[1] = {"data"}
                /\ sent.args[1].data = nav.url]_vars

\* a file whose name has a space was dropped, then a link was followed
C19_Witness ==
  /\ Len(navigations) = 2
  /\ navigations[1].url = FileScheme \o <<"/", "/", "/", "a", "%", "2", "0", "b">>
  /\ HasScheme(navigations[2].url, HttpsScheme)
  /\ Len(out) = 2
  /\ out[1].args[1].data = <<"/", "a", " ", "b">>
  /\ out[1].args[1].escaped
  /\ out[2].args[1].data = navigations[2].url

====
